---- MODULE Spec2Model ----
(***************************************************************************)
(* Model of the Power BI custom-visual scanner:                            *)
(*   get_reports_pbi_sp.py           (service principal scan, "sp")        *)
(*   get_reports_pbi_interactive.py  (device-code scan, "interactive")     *)
(* Python str values are TLA+ strings, decoded text is a tuple of code     *)
(* points, bytes are tuples of 0..255, JSON values are tagged records.     *)
(***************************************************************************)
EXTENDS Integers, Sequences, FiniteSets, TLC

(***************************************************************************)
(* Bounds of the model                                                     *)
(***************************************************************************)
MaxContainers == 2
MaxWorkspaces == 2
MaxPages == 2

(***************************************************************************)
(* Python str operations                                                   *)
(***************************************************************************)
\* the printable ASCII characters, by code point: 32..95 and 97..126
AsciiLow == " !\"#$%&'()*+,-./0123456789:;<=>?@ABCDEFGHIJKLMNOPQRSTUVWXYZ[\\]^_"
AsciiHigh == "abcdefghijklmnopqrstuvwxyz{|}~"

CharAt(s, i) == SubSeq(s, i, i)

Chars == {CharAt(AsciiLow, i) : i \in 1..Len(AsciiLow)}
         \cup {CharAt(AsciiHigh, i) : i \in 1..Len(AsciiHigh)}

\* ord(c)
Ord == [c \in Chars |->
          IF \E i \in 1..Len(AsciiLow) : CharAt(AsciiLow, i) = c
          THEN 31 + CHOOSE i \in 1..Len(AsciiLow) : CharAt(AsciiLow, i) = c
          ELSE 96 + CHOOSE i \in 1..Len(AsciiHigh) : CharAt(AsciiHigh, i) = c]

\* sub in s
Contains(s, sub) ==
    \E i \in 1..(Len(s) - Len(sub) + 1) : SubSeq(s, i, i + Len(sub) - 1) = sub

\* s.startswith(prefix)
StartsWith(s, prefix) ==
    Len(prefix) <= Len(s) /\ SubSeq(s, 1, Len(prefix)) = prefix

\* s.endswith(suffix)
EndsWith(s, suffix) ==
    Len(suffix) <= Len(s) /\ SubSeq(s, Len(s) - Len(suffix) + 1, Len(s)) = suffix

LowerChar(c) ==
    IF Ord[c] >= 65 /\ Ord[c] <= 90 THEN CharAt(AsciiHigh, Ord[c] + 32 - 96) ELSE c

RECURSIVE Lower(_)
\* s.lower()
Lower(s) == IF s = "" THEN "" ELSE LowerChar(Head(s)) \o Lower(Tail(s))

UpperChar(c) ==
    IF Ord[c] >= 97 /\ Ord[c] <= 122 THEN CharAt(AsciiLow, Ord[c] - 32 - 31) ELSE c

RECURSIVE Upper(_)
\* s.upper()
Upper(s) == IF s = "" THEN "" ELSE UpperChar(Head(s)) \o Upper(Tail(s))

\* the code points of a str
CodePoints(s) == [i \in 1..Len(s) |-> Ord[CharAt(s, i)]]

(***************************************************************************)
(* VisualClassifier: is_custom_visual of each script                       *)
(***************************************************************************)
builtin_visuals_sp ==
    { "barChart", "clusteredBarChart", "clusteredColumnChart", "columnChart",
      "lineChart", "areaChart", "lineClusteredColumnComboChart", "lineStackedColumnComboChart",
      "pieChart", "donutChart", "funnel", "gauge", "card", "multiRowCard",
      "table", "matrix", "slicer", "map", "filledMap", "shape", "image",
      "textbox", "scatterChart", "pivotTable", "treemap", "waterfallChart",
      "hundredPercentStackedBarChart", "hundredPercentStackedColumnChart",
      "ribbonChart", "kpi", "decompositionTreeVisual",
      "stackedBarChart", "stackedColumnChart", "lineStackedAreaChart",
      "hundredPercentStackedAreaChart", "stackedAreaChart",
      "ribbon", "actionButton", "basicShape" }

custom_prefixes == {"PBI_CV", "custom", "Custom"}

\* is_custom_visual with the length rule starting at 25 characters
is_custom_visual_sp_LengthFrom25(visual_type) ==
    IF visual_type = "" \/ visual_type = "Unknown" THEN FALSE
    ELSE IF visual_type \in builtin_visuals_sp THEN FALSE
    ELSE IF Contains(visual_type, ".") THEN TRUE
    ELSE IF Len(visual_type) >= 25 THEN TRUE
    ELSE IF \E prefix \in custom_prefixes : StartsWith(visual_type, prefix) THEN TRUE
    ELSE FALSE

is_custom_visual_sp(visual_type) ==
    IF visual_type = "" \/ visual_type = "Unknown" THEN FALSE
    ELSE IF visual_type \in builtin_visuals_sp THEN FALSE
    ELSE IF Contains(visual_type, ".") THEN TRUE
    ELSE IF Len(visual_type) > 25 THEN TRUE
    ELSE IF \E prefix \in custom_prefixes : StartsWith(visual_type, prefix) THEN TRUE
    ELSE FALSE

builtin_visuals_interactive ==
    { "clusteredBarChart", "clusteredColumnChart", "hundredPercentStackedBarChart",
      "hundredPercentStackedColumnChart", "lineChart", "areaChart", "stackedAreaChart",
      "lineStackedColumnComboChart", "lineClusteredColumnComboChart", "ribbonChart",
      "waterfallChart", "funnelChart", "scatterChart", "pieChart", "donutChart",
      "gauge", "card", "multiRowCard", "kpi", "slicer", "table", "matrix",
      "filledMap", "map", "shape", "image", "textbox", "treemap", "basicShape",
      "actionButton", "columnChart", "barChart", "pivotTable" }

\* is_custom_visual with the prefix test made on the lower-cased identifier
is_custom_visual_interactive_PrefixAnyCase(visual_type) ==
    IF Lower(visual_type) \in builtin_visuals_interactive THEN FALSE
    ELSE IF Contains(visual_type, ".") \/ Len(visual_type) > 25
            \/ StartsWith(Lower(visual_type), "pbi_cv_") THEN TRUE
    ELSE FALSE

is_custom_visual_interactive(visual_type) ==
    IF Lower(visual_type) \in builtin_visuals_interactive THEN FALSE
    ELSE IF Contains(visual_type, ".") \/ Len(visual_type) > 25
            \/ StartsWith(visual_type, "PBI_CV_") THEN TRUE
    ELSE FALSE

\* the classifier that extract_visuals_from_pbix of the given script calls
is_custom_visual(script, visual_type) ==
    IF script = "sp" THEN is_custom_visual_sp(visual_type)
    ELSE is_custom_visual_interactive(visual_type)

(***************************************************************************)
(* bytes <-> text: the codecs used on a Layout payload                     *)
(***************************************************************************)
\* text.encode('utf-16-le') for code points of the basic plane
encode_utf16le(cps) ==
    [i \in 1..(2 * Len(cps)) |->
        IF i % 2 = 1 THEN cps[(i + 1) \div 2] % 256 ELSE cps[i \div 2] \div 256]

\* the utf-8 bytes of one code point of the basic plane
Utf8Bytes(c) ==
    IF c < 128 THEN <<c>>
    ELSE IF c < 2048 THEN <<192 + (c \div 64), 128 + (c % 64)>>
    ELSE <<224 + (c \div 4096), 128 + ((c \div 64) % 64), 128 + (c % 64)>>

RECURSIVE encode_utf8_range(_, _, _)
encode_utf8_range(cps, lo, hi) ==
    IF lo > hi THEN <<>>
    ELSE IF lo = hi THEN Utf8Bytes(cps[lo])
    ELSE encode_utf8_range(cps, lo, (lo + hi) \div 2)
         \o encode_utf8_range(cps, (lo + hi) \div 2 + 1, hi)

\* text.encode('utf-8') for code points of the basic plane
encode_utf8(cps) == encode_utf8_range(cps, 1, Len(cps))

IsHighSurrogate(u) == u >= 55296 /\ u <= 56319
IsLowSurrogate(u) == u >= 56320 /\ u <= 57343

\* the k-th 16-bit little-endian unit of data
Unit16(data, k) == data[2 * k - 1] + 256 * data[2 * k]

\* utf-16-le data decodes when it is not truncated and every surrogate is
\* half of a high/low pair
Utf16WellFormed(data) ==
    /\ Len(data) % 2 = 0
    /\ \A k \in 1..(Len(data) \div 2) :
          /\ IsHighSurrogate(Unit16(data, k)) =>
                k < Len(data) \div 2 /\ IsLowSurrogate(Unit16(data, k + 1))
          /\ IsLowSurrogate(Unit16(data, k)) =>
                k > 1 /\ IsHighSurrogate(Unit16(data, k - 1))

\* the code points of well-formed utf-16-le data (-1 marks the second unit
\* of a pair, which is dropped)
Utf16Text(data) ==
    SelectSeq([k \in 1..(Len(data) \div 2) |->
                 IF IsHighSurrogate(Unit16(data, k))
                 THEN 65536 + (Unit16(data, k) - 55296) * 1024 + (Unit16(data, k + 1) - 56320)
                 ELSE IF IsLowSurrogate(Unit16(data, k)) THEN -1
                 ELSE Unit16(data, k)],
              LAMBDA c : c # -1)

\* data.decode('utf-16-le'): ok = FALSE stands for UnicodeDecodeError
decode_utf16le(data) ==
    IF Utf16WellFormed(data) THEN [ok |-> TRUE, text |-> Utf16Text(data)]
    ELSE [ok |-> FALSE, text |-> <<>>]

IsCont(data, i) == i >= 1 /\ i <= Len(data) /\ data[i] >= 128 /\ data[i] <= 191

\* length of the utf-8 sequence whose first byte is at offset i, 0 if there
\* is no valid sequence there
Utf8SeqLen(data, i) ==
    LET b == data[i] IN
    IF b < 128 THEN 1
    ELSE IF b >= 194 /\ b <= 223 /\ IsCont(data, i + 1) THEN 2
    ELSE IF b >= 224 /\ b <= 239 /\ IsCont(data, i + 1) /\ IsCont(data, i + 2)
            /\ (b = 224 => data[i + 1] >= 160)              \* overlong
            /\ (b = 237 => data[i + 1] <= 159)              \* surrogate
         THEN 3
    ELSE IF b >= 240 /\ b <= 244 /\ IsCont(data, i + 1) /\ IsCont(data, i + 2)
            /\ IsCont(data, i + 3)
            /\ (b = 240 => data[i + 1] >= 144)              \* overlong
            /\ (b = 244 => data[i + 1] <= 143)              \* above U+10FFFF
         THEN 4
    ELSE 0

Utf8CodePoint(data, i, n) ==
    IF n = 1 THEN data[i]
    ELSE IF n = 2 THEN (data[i] - 192) * 64 + (data[i + 1] - 128)
    ELSE IF n = 3 THEN (data[i] - 224) * 4096 + (data[i + 1] - 128) * 64 + (data[i + 2] - 128)
    ELSE (data[i] - 240) * 262144 + (data[i + 1] - 128) * 4096
         + (data[i + 2] - 128) * 64 + (data[i + 3] - 128)

\* utf-8 data decodes when every non-continuation byte starts a valid
\* sequence and every continuation byte lies inside one
Utf8WellFormed(data) ==
    \A i \in 1..Len(data) :
        IF IsCont(data, i)
        THEN \E k \in 1..3 :
                /\ i - k >= 1
                /\ ~IsCont(data, i - k)
                /\ \A m \in 1..(k - 1) : IsCont(data, i - m)
                /\ Utf8SeqLen(data, i - k) > k
        ELSE Utf8SeqLen(data, i) # 0

\* the code points of well-formed utf-8 data (-1 marks continuation bytes)
Utf8Text(data) ==
    SelectSeq([i \in 1..Len(data) |->
                 IF IsCont(data, i) THEN -1
                 ELSE Utf8CodePoint(data, i, Utf8SeqLen(data, i))],
              LAMBDA c : c # -1)

\* data.decode('utf-8'): ok = FALSE stands for UnicodeDecodeError
decode_utf8(data) ==
    IF Utf8WellFormed(data) THEN [ok |-> TRUE, text |-> Utf8Text(data)]
    ELSE [ok |-> FALSE, text |-> <<>>]

(***************************************************************************)
(* JSON values: tagged records; an object keeps its members in document    *)
(* order as a tuple of <<key, value>> pairs (a Python dict)                *)
(***************************************************************************)
JStr(s) == [json |-> "string", v |-> s]
JNum(n) == [json |-> "number", v |-> n]
JArr(items) == [json |-> "array", items |-> items]
JObj(members) == [json |-> "object", members |-> members]

\* key in d, for a dict d
HasKey(d, key) == \E i \in 1..Len(d.members) : d.members[i][1] = key

\* d[key], for a dict d holding key (the last member of that name wins)
Item(d, key) ==
    d.members[CHOOSE i \in 1..Len(d.members) :
                 /\ d.members[i][1] = key
                 /\ \A j \in (i + 1)..Len(d.members) : d.members[j][1] # key][2]

\* d.get(key, default), for a dict d
Get(d, key, default) == IF HasKey(d, key) THEN Item(d, key) ELSE default

RECURSIVE Escape(_)
\* the body of a JSON string literal holding s
Escape(s) ==
    IF s = "" THEN ""
    ELSE (IF Head(s) = "\"" THEN "\\\""
          ELSE IF Head(s) = "\\" THEN "\\\\"
          ELSE Head(s)) \o Escape(Tail(s))

RECURSIVE json_text(_)
RECURSIVE json_members(_, _)
RECURSIVE json_items(_, _)
\* the (compact) JSON text of a value
json_text(v) ==
    IF v.json = "string" THEN "\"" \o Escape(v.v) \o "\""
    ELSE IF v.json = "number" THEN ToString(v.v)
    ELSE IF v.json = "array" THEN "[" \o json_items(v.items, 1) \o "]"
    ELSE "{" \o json_members(v.members, 1) \o "}"

json_members(members, i) ==
    IF i > Len(members) THEN ""
    ELSE "\"" \o Escape(members[i][1]) \o "\":" \o json_text(members[i][2])
         \o (IF i < Len(members) THEN "," ELSE "") \o json_members(members, i + 1)

json_items(items, i) ==
    IF i > Len(items) THEN ""
    ELSE json_text(items[i])
         \o (IF i < Len(items) THEN "," ELSE "") \o json_items(items, i + 1)

(***************************************************************************)
(* The documents a report archive can hold (bounded)                       *)
(***************************************************************************)
\* a visual's config: {"name": ..., "singleVisual": {"visualType": ...}}
Config(name, visual_type) ==
    JObj(<< <<"name", JStr(name)>>,
            <<"singleVisual", JObj(<< <<"visualType", JStr(visual_type)>> >>)>> >>)

\* configs with every field present
FullConfigs == {Config("v1", "card"), Config("v2", "acme.bar")}

\* a config without name and without visualType, and one without singleVisual
SparseConfigs == {JObj(<< <<"singleVisual", JObj(<<>>)>> >>), JObj(<< <<"name", JStr("v3")>> >>)}

\* valid JSON that is not an object
ScalarConfig == JNum(5)

ConfigDocs == FullConfigs \cup SparseConfigs \cup {ScalarConfig}

\* a config string that is not JSON at all
BrokenConfigText == "oops"

Container(config_str) == JObj(<< <<"config", JStr(config_str)>> >>)

\* a visual container without a config member
BareContainer == JObj(<< <<"x", JNum(1)>> >>)

\* the container shapes that fill the bounded container lists
ContainerKinds ==
    {Container(json_text(c)) : c \in FullConfigs}
    \cup {Container(BrokenConfigText), BareContainer}

RareContainers ==
    {Container(json_text(c)) : c \in SparseConfigs \cup {ScalarConfig}}

RECURSIVE SeqsUpTo(_, _)
\* the sequences over S of length at most n
SeqsUpTo(S, n) ==
    IF n = 0 THEN {<<>>}
    ELSE LET shorter == SeqsUpTo(S, n - 1) IN
         shorter \cup {Append(q, e) : q \in shorter, e \in S}

ContainerLists == SeqsUpTo(ContainerKinds, MaxContainers)

Section(displayName, visualContainers) ==
    JObj(<< <<"displayName", JStr(displayName)>>,
            <<"visualContainers", JArr(visualContainers)>> >>)

Layout(sections) == JObj(<< <<"sections", JArr(sections)>> >>)

\* the document of the second Layout entry of a two-entry archive
\* four pages: two that share a display name with one visual each, one of
\* its own name with a visual, and one without visuals
SharedPageDoc ==
    Layout(<<Section("P1", <<Container(json_text(Config("v1", "card")))>>),
             Section("P1", <<Container(json_text(Config("v2", "acme.bar")))>>),
             Section("P2", <<Container(json_text(Config("v1", "card")))>>),
             Section("P3", <<>>)>>)

OtherDoc == Layout(<<Section("P2", <<Container(json_text(Config("v2", "acme.bar")))>>)>>)

LayoutDocs ==
    \* one page with every bounded container list
    {Layout(<<Section("P1", cl)>>) : cl \in ContainerLists}
    \* two pages of one container each
    \cup {Layout(<<Section("P1", <<c1>>), Section("P2", <<c2>>)>>) :
            c1 \in ContainerKinds, c2 \in ContainerKinds}
    \* two pages with the same display name
    \cup {Layout(<<Section("P1", <<Container(json_text(Config("v1", "card")))>>),
                   Section("P1", <<Container(json_text(Config("v2", "acme.bar")))>>)>>)}
    \* sparse and scalar configs
    \cup {Layout(<<Section("P1", <<c>>)>>) : c \in RareContainers}
    \* a section without displayName, a section without visualContainers
    \cup {Layout(<<JObj(<< <<"visualContainers",
                             JArr(<<Container(json_text(Config("v1", "card")))>>)>> >>)>>),
          Layout(<<JObj(<< <<"displayName", JStr("P1")>> >>)>>)}
    \* a document without sections, and documents that are not objects
    \cup {JObj(<< <<"version", JNum(1)>> >>), JArr(<<>>), JNum(7)}
    \cup {OtherDoc, SharedPageDoc}

JsonDocs == LayoutDocs \cup ConfigDocs

\* the text of every document of the model, as code points
JsonText == [d \in JsonDocs |-> CodePoints(json_text(d))]

(***************************************************************************)
(* json.loads                                                              *)
(***************************************************************************)
IsSpace(c) == c \in {32, 9, 10, 13}

RECURSIVE Strip(_)
\* text without leading and trailing JSON whitespace
Strip(text) ==
    IF text = <<>> THEN text
    ELSE IF IsSpace(Head(text)) THEN Strip(Tail(text))
    ELSE IF IsSpace(text[Len(text)]) THEN Strip(SubSeq(text, 1, Len(text) - 1))
    ELSE text

\* json.loads(text): ok = FALSE stands for JSONDecodeError.  A text is a
\* document exactly when it is the text of one of the model's documents,
\* surrounded by optional whitespace.
json_loads(text) ==
    LET t == Strip(text) IN
    IF \E d \in JsonDocs : JsonText[d] = t
    THEN [ok |-> TRUE, value |-> CHOOSE d \in JsonDocs : JsonText[d] = t]
    ELSE [ok |-> FALSE, value |-> JNum(0)]

(***************************************************************************)
(* ArchiveParser: extract_visuals_from_pbix                                *)
(* A blob is [kind |-> "notzip"] or                                        *)
(* [kind |-> "zip", namelist |-> <<[file_name, data], ...>>]               *)
(***************************************************************************)
\* "Layout" in file_name and not file_name.endswith("/")
IsLayoutEntry(file_name) == Contains(file_name, "Layout") /\ ~EndsWith(file_name, "/")

\* zip_file.read(file_name): the data of the last entry of that name
ZipRead(namelist, file_name) ==
    namelist[CHOOSE i \in 1..Len(namelist) :
                /\ namelist[i].file_name = file_name
                /\ \A j \in (i + 1)..Len(namelist) : namelist[j].file_name # file_name].data

\* key in value: membership for a dict or a list; ok = FALSE is the
\* TypeError raised for a number
In(key, value) ==
    IF value.json = "object" THEN [ok |-> TRUE, found |-> HasKey(value, key)]
    ELSE IF value.json = "array"
         THEN [ok |-> TRUE, found |-> \E k \in 1..Len(value.items) : value.items[k] = JStr(key)]
    ELSE [ok |-> FALSE, found |-> FALSE]

\* the record built from a parsed config (a dict)
visual_info(script, config, section_name) ==
    LET visual_type == Get(Get(config, "singleVisual", JObj(<<>>)), "visualType", JStr("Unknown")).v
    IN [name |-> Get(config, "name", JStr("Unnamed")).v,
        type |-> visual_type,
        is_custom |-> is_custom_visual(script, visual_type),
        page |-> section_name]

RECURSIVE WalkContainers(_, _, _, _, _)
\* for container in section["visualContainers"]: ...   from the i-th one on.
\* Returns the list so far and whether an exception left the loop.
WalkContainers(script, containers, i, section_name, visuals) ==
    IF i > Len(containers) THEN [visuals |-> visuals, raised |-> FALSE]
    ELSE LET container == containers[i] IN
         IF ~HasKey(container, "config")
         THEN WalkContainers(script, containers, i + 1, section_name, visuals)
         ELSE LET config == json_loads(CodePoints(Item(container, "config").v)) IN
              IF ~config.ok                       \* JSONDecodeError
              THEN [visuals |-> visuals, raised |-> TRUE]
              ELSE IF config.value.json # "object"   \* AttributeError on config.get
              THEN [visuals |-> visuals, raised |-> TRUE]
              ELSE WalkContainers(script, containers, i + 1, section_name,
                       Append(visuals, visual_info(script, config.value, section_name)))

RECURSIVE WalkSections(_, _, _, _)
\* for section in layout_data["sections"]: ...   from the i-th one on
WalkSections(script, sections, i, visuals) ==
    IF i > Len(sections) THEN [visuals |-> visuals, raised |-> FALSE]
    ELSE LET section == sections[i]
             section_name == Get(section, "displayName", JStr("Unnamed Section")).v
         IN IF ~HasKey(section, "visualContainers")
            THEN WalkSections(script, sections, i + 1, visuals)
            ELSE LET r == WalkContainers(script, Item(section, "visualContainers").items, 1,
                                         section_name, visuals)
                 IN IF r.raised THEN r
                    ELSE WalkSections(script, sections, i + 1, r.visuals)

\* the body shared by the utf-16 and the utf-8 branch: sections and visual
\* containers of a parsed Layout document
WalkLayout(script, layout_data, visuals) ==
    LET has == In("sections", layout_data) IN
    IF ~has.ok THEN [visuals |-> visuals, raised |-> TRUE]
    ELSE IF ~has.found THEN [visuals |-> visuals, raised |-> FALSE]
    ELSE WalkSections(script, Item(layout_data, "sections").items, 1, visuals)

\* one Layout entry.  raised = TRUE: an exception other than
\* UnicodeDecodeError left the inner try and reaches the outer handler.
ReadLayout(script, data, visuals) ==
    LET utf16 == decode_utf16le(data) IN
    IF utf16.ok
    THEN LET layout_data == json_loads(utf16.text) IN
         IF ~layout_data.ok THEN [visuals |-> visuals, raised |-> TRUE]
         ELSE WalkLayout(script, layout_data.value, visuals)
    ELSE \* except UnicodeDecodeError: retry as utf-8, inside try/except Exception
         LET utf8 == decode_utf8(data) IN
         IF ~utf8.ok THEN [visuals |-> visuals, raised |-> FALSE]
         ELSE LET layout_data == json_loads(utf8.text) IN
              IF ~layout_data.ok THEN [visuals |-> visuals, raised |-> FALSE]
              ELSE [visuals |-> WalkLayout(script, layout_data.value, visuals).visuals,
                    raised |-> FALSE]

RECURSIVE ReadEntries(_, _, _, _)
\* for file_name in zip_file.namelist(): ...   from the i-th name on
ReadEntries(script, namelist, i, visuals) ==
    IF i > Len(namelist) THEN visuals
    ELSE IF ~IsLayoutEntry(namelist[i].file_name)
         THEN ReadEntries(script, namelist, i + 1, visuals)
         ELSE LET r == ReadLayout(script, ZipRead(namelist, namelist[i].file_name), visuals)
              IN IF r.raised THEN r.visuals      \* outer except Exception
                 ELSE ReadEntries(script, namelist, i + 1, r.visuals)

\* extract_visuals_from_pbix(pbix_content) as called from the given script
extract_visuals_from_pbix(script, pbix_content) ==
    IF pbix_content.kind # "zip" THEN <<>>       \* BadZipFile, outer except
    ELSE ReadEntries(script, pbix_content.namelist, 1, <<>>)

(***************************************************************************)
(* The archives handed to the parser (bounded)                             *)
(***************************************************************************)
SPACE == <<32>>

\* the encodings of one document: utf-16-le, utf-8, utf-8 followed by a
\* space (the other parity of the byte length)
Encodings(d) ==
    {encode_utf16le(JsonText[d]), encode_utf8(JsonText[d]), encode_utf8(JsonText[d] \o SPACE)}

\* payloads that are no document: bytes no codec accepts, utf-16 text that
\* is not JSON, utf-8 text (odd length) that is not JSON
JunkPayloads ==
    {<<255>>, encode_utf16le(CodePoints("oops")), encode_utf8(CodePoints("oop"))}

LayoutPayloads == UNION {Encodings(d) : d \in LayoutDocs} \cup JunkPayloads

OtherPayloads == Encodings(OtherDoc) \cup JunkPayloads

Entry(file_name, data) == [file_name |-> file_name, data |-> data]

Zip(namelist) == [kind |-> "zip", namelist |-> namelist]

NotZip == [kind |-> "notzip"]

ParserBlobs ==
    {NotZip, Zip(<<>>)}
    \cup {Zip(<<Entry("Report/Layout", p)>>) : p \in LayoutPayloads}
    \cup {Zip(<<Entry("Report/Layout", p), Entry("Mobile/Layout", q)>>) :
             p \in LayoutPayloads, q \in OtherPayloads}
    \cup {Zip(<<Entry("Mobile/Layout", q), Entry("Report/Layout", p)>>) :
             p \in LayoutPayloads, q \in OtherPayloads}
    \cup {Zip(<<Entry("Version", q), Entry("Report/Layout/", <<>>), Entry("Report/Layout", p)>>) :
             p \in OtherPayloads, q \in OtherPayloads}

Scripts == {"sp", "interactive"}

(***************************************************************************)
(* The REST service as the scan scripts see it (bounded)                   *)
(***************************************************************************)
None == [kind |-> "None"]

\* None where a report id is expected
NoneId == "None"

\* bool(content) for the return value of export_report_as_pbix
Truthy(content) == content # None

\* a report of one page without visuals
NoVisualDoc == Layout(<<Section("P1", <<>>)>>)

PbixOf(d) == Zip(<<Entry("Report/Layout", encode_utf16le(JsonText[d]))>>)

\* the bodies a 200 response of the Export endpoint carries: report
\* archives and bytes that are no archive
ExportBlobs == {PbixOf(SharedPageDoc), PbixOf(NoVisualDoc), NotZip}

RestrictedCode == "ExportData_DisabledForModelWithDirectLakeMode"

\* the responses of GET .../Export: a payload, an error body, no response
ExportResponses ==
    {[kind |-> "ok", content |-> b] : b \in ExportBlobs}
    \cup {[kind |-> "error", code |-> c] : c \in {RestrictedCode, "PowerBINotAuthorizedException"}}
    \cup {[kind |-> "timeout"]}

\* the responses of POST .../Clone: created with an id in the body, created
\* with a body that has no id, refused (no response is handled like refused)
CloneResponses == {"created", "created_no_id", "refused"}

\* the responses of DELETE .../reports/{id}
DeleteResponses == {"deleted", "refused", "timeout"}

\* the id the service gives to the clone of a report
CloneIdOf(report_id) == "c" \o report_id

Workspace(k) ==
    [id |-> "ws" \o ToString(k), name |-> "Workspace " \o ToString(k), capacityId |-> "cap1"]

\* the reports of a workspace: ordinary ones, and a clone left behind by an
\* earlier run
ReportOf(ws, n) == [id |-> "0000000" \o ToString(n) \o "-" \o ws.id, name |-> "Report " \o ToString(n)]

LeftoverOf(ws) ==
    [id |-> "99999999-" \o ws.id, name |-> "temp_analysis_" \o SubSeq(ReportOf(ws, 1).id, 1, 8)]

\* the lists GET .../reports returns for a workspace
ReportLists(ws) ==
    { <<>>,
      <<ReportOf(ws, 1)>>,
      <<LeftoverOf(ws), ReportOf(ws, 1)>> }

\* the lists GET .../pages returns: no page, or MaxPages pages
PageLists == {[k \in 1..n |-> [displayName |-> "Page " \o ToString(k)]] : n \in {0, MaxPages}}

(***************************************************************************)
(* State                                                                   *)
(***************************************************************************)
VARIABLES
    parser_pc,        \* "idle" | "called" | "returned": a call of the parser
    parser_script,    \* the script whose parser runs
    parser_blob,      \* its argument pbix_content
    parser_visuals,   \* its return value
    classifier_pc,    \* "idle" | "called" | "returned": a call of is_custom_visual
    classifier_script,\* the script whose classifier runs
    classified_type,  \* its argument visual_type
    is_custom,        \* its return value
    script,           \* the scan script that runs: "sp" | "interactive"
    pc,               \* control location of main / analyze_workspace_reports
    workspaces,       \* main: the list returned by get_workspaces
    ws_i,             \* main: index of the workspace of the for loop
    all_results,      \* main: all_results
    csv,              \* the output file: [exists, rows]
    summary,          \* the printed run summary, None before
    reports,          \* analyze_workspace_reports: reports
    rep_i,            \* analyze_workspace_reports: index of the report of the for loop
    results,          \* analyze_workspace_reports: results
    result,           \* analyze_workspace_reports: result
    pbix_content,     \* analyze_workspace_reports: pbix_content
    extracted_visuals, \* analyze_workspace_reports: visuals ([] before the extraction)
    clone_id,         \* analyze_workspace_reports: clone_id
    analysis,         \* the analysis of the current report: "idle" | "running" | "raised"
    calls,            \* the REST calls made for the current report, in order
    discovered,       \* service: the reports listed so far, in order
    stdout            \* the lines the cleanup step of the current report printed

parser_vars == <<parser_pc, parser_script, parser_blob, parser_visuals>>

classifier_vars == <<classifier_pc, classifier_script, classified_type, is_custom>>

main_vars == <<script, workspaces, ws_i, all_results, csv, summary>>

report_vars == <<reports, rep_i, results, result, pbix_content, extracted_visuals, clone_id,
                 analysis>>

service_vars == <<calls, discovered, stdout>>

vars == <<parser_vars, classifier_vars, pc, main_vars, report_vars, service_vars>>

NoResult == [method |-> "None"]

\* the locals of one report's analysis when no analysis is under way
NoAnalysis ==
    /\ result' = NoResult
    /\ pbix_content' = None
    /\ extracted_visuals' = <<>>
    /\ clone_id' = NoneId
    /\ analysis' = "idle"
    /\ calls' = <<>>
    /\ stdout' = <<>>

ParserIdle ==
    /\ parser_pc = "idle"
    /\ parser_script = "sp"
    /\ parser_blob = None
    /\ parser_visuals = <<>>

ClassifierIdle ==
    /\ classifier_pc = "idle"
    /\ classifier_script = "sp"
    /\ classified_type = ""
    /\ is_custom = FALSE

MainIdle ==
    /\ script = "sp"
    /\ pc = "idle"
    /\ workspaces = <<>>
    /\ ws_i = 1
    /\ all_results = <<>>
    /\ csv = [exists |-> FALSE, rows |-> <<>>]
    /\ summary = None
    /\ reports = <<>>
    /\ rep_i = 1
    /\ results = <<>>
    /\ result = NoResult
    /\ pbix_content = None
    /\ extracted_visuals = <<>>
    /\ clone_id = NoneId
    /\ analysis = "idle"
    /\ calls = <<>>
    /\ discovered = <<>>
    /\ stdout = <<>>

(***************************************************************************)
(* ParserSpec: extract_visuals_from_pbix applied to every bounded archive  *)
(***************************************************************************)
ParserInit ==
    /\ parser_pc = "called"
    /\ parser_script \in Scripts
    /\ parser_blob \in ParserBlobs
    /\ parser_visuals = <<>>
    /\ ClassifierIdle
    /\ MainIdle

ParserReturn ==
    /\ parser_pc = "called"
    /\ parser_visuals' = extract_visuals_from_pbix(parser_script, parser_blob)
    /\ parser_pc' = "returned"
    /\ UNCHANGED <<parser_script, parser_blob, classifier_vars, pc, main_vars, report_vars,
                   service_vars>>

ParserNext == ParserReturn

ParserSpec == ParserInit /\ [][ParserNext]_vars

(***************************************************************************)
(* ClassifierSpec: is_custom_visual applied to every bounded identifier    *)
(***************************************************************************)
\* the built-in identifiers of both scripts
BuiltinIds == builtin_visuals_sp \cup builtin_visuals_interactive

\* identifiers that are in no built-in set under any casing: the placeholder
\* and the empty type, vendor-qualified names, names of 25 and of 26
\* characters, names that start with a custom-vendor token
OtherIds ==
    { "Unknown", "", "acme.bar", "card.v2", "Acme.Visuals.SankeyDiagram2024",
      "sankey", "Gantt1448688115699", "ChicletSlicer1448559807354",
      "abcdefghijklmnopqrstuvwxy", "abcdefghijklmnopqrstuvwxyz",
      "PBI_CV_0123456789ABCDEF", "PBI_CV_9D783E0D_2610_4C22_9576_88AD092AB59E",
      "PBI_CVx", "PBI_CV", "PBI_C", "customGantt", "CustomGantt", "custom", "Customs",
      "CUSTOMGANTT", "myCustomVisual", "pbi_cv_lowercase" }

VisualTypes ==
    BuiltinIds \cup {Upper(id) : id \in BuiltinIds} \cup {Lower(id) : id \in BuiltinIds}
    \cup OtherIds

ClassifierInit ==
    /\ classifier_pc = "called"
    /\ classifier_script \in Scripts
    /\ classified_type \in VisualTypes
    /\ is_custom = FALSE
    /\ ParserIdle
    /\ MainIdle

ClassifierReturn ==
    /\ classifier_pc = "called"
    /\ is_custom' = is_custom_visual(classifier_script, classified_type)
    /\ classifier_pc' = "returned"
    /\ UNCHANGED <<parser_vars, classifier_script, classified_type, pc, main_vars, report_vars,
                   service_vars>>

ClassifierNext == ClassifierReturn

ClassifierSpec == ClassifierInit /\ [][ClassifierNext]_vars

(***************************************************************************)
(* Spec: one run of a scan script                                          *)
(***************************************************************************)
Init ==
    /\ ParserIdle
    /\ ClassifierIdle
    /\ script \in Scripts
    /\ pc = "start"
    /\ workspaces = <<>>
    /\ ws_i = 1
    /\ all_results = <<>>
    /\ csv = [exists |-> FALSE, rows |-> <<>>]
    /\ summary = None
    /\ reports = <<>>
    /\ rep_i = 1
    /\ results = <<>>
    /\ result = NoResult
    /\ pbix_content = None
    /\ extracted_visuals = <<>>
    /\ clone_id = NoneId
    /\ analysis = "idle"
    /\ calls = <<>>
    /\ discovered = <<>>
    /\ stdout = <<>>

\* export_report_as_pbix: the content of a 200 response, None otherwise
export_report_as_pbix(response) ==
    IF response.kind = "ok" THEN response.content ELSE None

\* clone_report: the id of a 200/201 response (None when the body has none)
clone_report(response, report_id) ==
    IF response = "created" THEN CloneIdOf(report_id) ELSE NoneId

\* delete_report: the lines it prints; the status of the response is not
\* read and an exception of the call is passed over
delete_report(response) == <<>>

\* get_report_pages: the page list, [] on any failure
get_report_pages(response) ==
    IF response.kind = "ok" THEN response.pages ELSE <<>>

fieldnames ==
    IF script = "sp"
    THEN <<"workspace", "report", "report_id", "method", "num_pages",
           "is_directlake", "total_visuals", "custom_visuals">>
    ELSE <<"workspace", "workspace_id", "capacity_id", "report", "report_id", "method",
           "num_pages", "is_directlake", "total_visuals", "custom_visuals">>

\* writer.writeheader()
HeaderRow == [header |-> fieldnames]

\* the result record a report's analysis starts from
InitialResult(workspace, report) ==
    IF script = "sp"
    THEN [workspace |-> workspace.name, report |-> report.name, report_id |-> report.id,
          method |-> "Failed", num_pages |-> 0, is_directlake |-> "Unknown",
          total_visuals |-> 0, custom_visuals |-> 0]
    ELSE [workspace |-> workspace.name, workspace_id |-> workspace.id,
          capacity_id |-> workspace.capacityId,
          report |-> report.name, report_id |-> report.id,
          method |-> "Failed", num_pages |-> 0, is_directlake |-> "Unknown",
          total_visuals |-> 0, custom_visuals |-> 0]

\* an exception leaves analyze_workspace_reports: sp's main catches it around
\* the call and goes on with the next workspace, interactive's main has no
\* handler and the run ends
RaiseFromAnalysis ==
    /\ results' = <<>>
    /\ IF script = "sp"
       THEN pc' = "ws_loop" /\ ws_i' = ws_i + 1
       ELSE pc' = "crashed" /\ ws_i' = ws_i

\* Authenticate with the output file created before the token is tested
Authenticate_CsvFirst ==
    /\ pc = "start"
    /\ csv' = [exists |-> TRUE, rows |-> <<HeaderRow>>]
    /\ \E authenticated \in BOOLEAN :
          pc' = IF authenticated THEN "fetch_ws" ELSE "done"
    /\ UNCHANGED <<parser_vars, classifier_vars, script, workspaces, ws_i, all_results, summary,
                   report_vars, service_vars>>

\* access_token = get_access_token...(); if not access_token: return
Authenticate ==
    /\ pc = "start"
    /\ \E authenticated \in BOOLEAN :
          pc' = IF authenticated THEN "fetch_ws" ELSE "done"
    /\ UNCHANGED <<parser_vars, classifier_vars, script, workspaces, ws_i, all_results, csv, summary,
                   report_vars, service_vars>>

\* workspaces = get_workspaces(access_token); raise_for_status is not caught
GetWorkspaces ==
    /\ pc = "fetch_ws"
    /\ \/ \E n \in 0..MaxWorkspaces :
            /\ workspaces' = [k \in 1..n |-> Workspace(k)]
            /\ pc' = IF script = "sp" THEN "ws_loop" ELSE "create_csv"
       \/ /\ pc' = "crashed"
          /\ UNCHANGED workspaces
    /\ UNCHANGED <<parser_vars, classifier_vars, script, ws_i, all_results, csv, summary,
                   report_vars, service_vars>>

\* interactive: create the CSV file and write the header immediately
CreateCsv ==
    /\ pc = "create_csv"
    /\ csv' = [exists |-> TRUE, rows |-> <<HeaderRow>>]
    /\ pc' = "ws_loop"
    /\ UNCHANGED <<parser_vars, classifier_vars, script, workspaces, ws_i, all_results, summary,
                   report_vars, service_vars>>

\* for workspace in workspaces: analyze_workspace_reports(...) up to
\* reports = get_reports_in_workspace(...)
NextWorkspace ==
    /\ pc = "ws_loop"
    /\ IF ws_i > Len(workspaces)
       THEN /\ pc' = IF script = "sp" THEN "write_csv" ELSE "summary"
            /\ UNCHANGED <<ws_i, reports, rep_i, results, discovered>>
       ELSE \/ \E listed \in ReportLists(workspaces[ws_i]) :
                 /\ reports' = listed
                 /\ discovered' = discovered \o listed
                 /\ results' = <<>>
                 /\ rep_i' = 1
                 /\ pc' = "rep_loop"
                 /\ UNCHANGED ws_i
            \/ \* raise_for_status() raises
               /\ RaiseFromAnalysis
               /\ UNCHANGED <<reports, rep_i, discovered>>
    /\ NoAnalysis
    /\ UNCHANGED <<parser_vars, classifier_vars, script, workspaces, all_results, csv, summary>>

\* IsTempClone that knows only the name temp_clone_for_analysis
IsTempClone_OldNameOnly(report_name) ==
    Contains(report_name, "temp_clone_for_analysis")

\* sp: if "temp_analysis_" in report_name or "temp_clone_for_analysis" in report_name
IsTempClone(report_name) ==
    Contains(report_name, "temp_analysis_") \/ Contains(report_name, "temp_clone_for_analysis")

\* for report in reports: the skip test and the initial result record
NextReport ==
    /\ pc = "rep_loop"
    /\ IF rep_i > Len(reports)
       THEN /\ pc' = "ws_return"
            /\ UNCHANGED <<rep_i, result, pbix_content, extracted_visuals, clone_id, analysis, calls, stdout>>
       ELSE IF script = "sp" /\ IsTempClone(reports[rep_i].name)
       THEN /\ rep_i' = rep_i + 1
            /\ UNCHANGED <<pc, result, pbix_content, extracted_visuals, clone_id, analysis, calls, stdout>>
       ELSE /\ result' = InitialResult(workspaces[ws_i], reports[rep_i])
            /\ pbix_content' = None
            /\ extracted_visuals' = <<>>
            /\ clone_id' = NoneId
            /\ analysis' = "running"
            /\ calls' = <<>>
            /\ stdout' = <<>>
            /\ pc' = "direct_export"
            /\ UNCHANGED rep_i
    /\ UNCHANGED <<parser_vars, classifier_vars, script, workspaces, ws_i, all_results, csv, summary,
                   reports, results, discovered>>

\* pbix_content = export_report_as_pbix(access_token, workspace_id, report_id)
\* sp: a falsy payload sets is_directlake = "Yes" and goes on to cloning
DirectExport ==
    /\ pc = "direct_export"
    /\ \E response \in ExportResponses :
          LET content == export_report_as_pbix(response) IN
          /\ pbix_content' = content
          /\ calls' = Append(calls, [op |-> "export", id |-> reports[rep_i].id,
                                     response |-> response])
          /\ IF Truthy(content)
             THEN pc' = "save" /\ UNCHANGED result
             ELSE IF script = "sp"
                  THEN /\ result' = [result EXCEPT !.is_directlake = "Yes"]
                       /\ pc' = "clone"
                  ELSE pc' = "pages" /\ UNCHANGED result
    /\ UNCHANGED <<parser_vars, classifier_vars, main_vars, reports, rep_i, results, extracted_visuals, clone_id, analysis,
                   discovered, stdout>>

\* sp: clone_id = clone_report(access_token, workspace_id, report_id, report_name)
CloneReport ==
    /\ pc = "clone"
    /\ \E response \in CloneResponses :
          /\ clone_id' = clone_report(response, reports[rep_i].id)
          /\ calls' = Append(calls, [op |-> "clone", id |-> reports[rep_i].id,
                                     response |-> response])
          /\ pc' = IF clone_id' # NoneId THEN "clone_export" ELSE "pages"
    /\ UNCHANGED <<parser_vars, classifier_vars, main_vars, reports, rep_i, results, result, pbix_content, extracted_visuals,
                   analysis, discovered, stdout>>

\* CloneExport followed by the page listing whatever the export returned
CloneExport_AlwaysListsPages ==
    /\ pc = "clone_export"
    /\ \E response \in ExportResponses :
          /\ pbix_content' = export_report_as_pbix(response)
          /\ calls' = Append(calls, [op |-> "export", id |-> clone_id, response |-> response])
          /\ pc' = "pages"
    /\ UNCHANGED <<parser_vars, classifier_vars, main_vars, reports, rep_i, results, result,
                   extracted_visuals, clone_id, analysis, discovered, stdout>>

\* sp: pbix_content = export_report_as_pbix(access_token, workspace_id, clone_id, is_clone=True)
CloneExport ==
    /\ pc = "clone_export"
    /\ \E response \in ExportResponses :
          /\ pbix_content' = export_report_as_pbix(response)
          /\ calls' = Append(calls, [op |-> "export", id |-> clone_id, response |-> response])
          /\ pc' = IF Truthy(pbix_content') THEN "save" ELSE "pages"
    /\ UNCHANGED <<parser_vars, classifier_vars, main_vars, reports, rep_i, results, result, extracted_visuals, clone_id,
                   analysis, discovered, stdout>>

\* with open(pbix_filename, "wb") as f: f.write(pbix_content) -- may raise OSError
SavePbix ==
    /\ pc = "save"
    /\ \/ /\ pc' = "extract"
          /\ UNCHANGED <<ws_i, results, analysis>>
       \/ /\ RaiseFromAnalysis
          /\ analysis' = "raised"
    /\ UNCHANGED <<parser_vars, classifier_vars, script, workspaces, all_results, csv, summary,
                   reports, rep_i, result, pbix_content, extracted_visuals, clone_id, service_vars>>

\* ResultOfVisuals with the two counts stored in each other's field
ResultOfVisuals_CountsSwapped(r, visuals) ==
    IF visuals # <<>>
    THEN [r EXCEPT !.method = "Direct Export",
                   !.total_visuals = Len(SelectSeq(visuals, LAMBDA v : v.is_custom)),
                   !.custom_visuals = Len(visuals),
                   !.is_directlake = "No",
                   !.num_pages = Cardinality({visuals[k].page : k \in 1..Len(visuals)})]
    ELSE [r EXCEPT !.method = "Direct Export (No Visuals)",
                   !.is_directlake = "No"]

\* ResultOfVisuals that leaves is_directlake alone when nothing was extracted
ResultOfVisuals_NoVisualsKeepsDirectLake(r, visuals) ==
    IF visuals # <<>>
    THEN [r EXCEPT !.method = "Direct Export",
                   !.total_visuals = Len(visuals),
                   !.custom_visuals = Len(SelectSeq(visuals, LAMBDA v : v.is_custom)),
                   !.is_directlake = "No",
                   !.num_pages = Cardinality({visuals[k].page : k \in 1..Len(visuals)})]
    ELSE [r EXCEPT !.method = "Direct Export (No Visuals)"]

\* ResultOfVisuals that leaves is_directlake alone when visuals were extracted
ResultOfVisuals_ExportKeepsDirectLake(r, visuals) ==
    IF visuals # <<>>
    THEN [r EXCEPT !.method = "Direct Export",
                   !.total_visuals = Len(visuals),
                   !.custom_visuals = Len(SelectSeq(visuals, LAMBDA v : v.is_custom)),
                   !.num_pages = Cardinality({visuals[k].page : k \in 1..Len(visuals)})]
    ELSE [r EXCEPT !.method = "Direct Export (No Visuals)",
                   !.is_directlake = "No"]

\* ResultOfVisuals that stores the number of records as the number of pages
ResultOfVisuals_CountsRecordsAsPages(r, visuals) ==
    IF visuals # <<>>
    THEN [r EXCEPT !.method = "Direct Export",
                   !.total_visuals = Len(visuals),
                   !.custom_visuals = Len(SelectSeq(visuals, LAMBDA v : v.is_custom)),
                   !.is_directlake = "No",
                   !.num_pages = Len(visuals)]
    ELSE [r EXCEPT !.method = "Direct Export (No Visuals)",
                   !.is_directlake = "No"]

\* the result after visuals = extract_visuals_from_pbix(pbix_content)
ResultOfVisuals(r, visuals) ==
    IF visuals # <<>>
    THEN [r EXCEPT !.method = "Direct Export",
                   !.total_visuals = Len(visuals),
                   !.custom_visuals = Len(SelectSeq(visuals, LAMBDA v : v.is_custom)),
                   !.is_directlake = "No",
                   !.num_pages = Cardinality({visuals[k].page : k \in 1..Len(visuals)})]
    ELSE [r EXCEPT !.method = "Direct Export (No Visuals)",
                   !.is_directlake = "No"]

\* visuals = extract_visuals_from_pbix(pbix_content) and the update of result
ExtractVisuals ==
    /\ pc = "extract"
    /\ extracted_visuals' = extract_visuals_from_pbix(script, pbix_content)
    /\ result' = ResultOfVisuals(result, extracted_visuals')
    /\ pc' = IF script = "sp" THEN "cleanup" ELSE "append"
    /\ UNCHANGED <<parser_vars, classifier_vars, script, workspaces, ws_i, all_results, csv, summary,
                   reports, rep_i, results, pbix_content, clone_id, analysis, service_vars>>

\* ResultOfPages that labels the result but does not store the page count
ResultOfPages_PagesNotCounted(r, pages) ==
    IF pages # <<>>
    THEN [r EXCEPT !.method = "Page Listing Only"]
    ELSE [r EXCEPT !.method = "Failed"]

\* the result after pages = get_report_pages(...)
ResultOfPages(r, pages) ==
    IF pages # <<>>
    THEN [r EXCEPT !.method = "Page Listing Only", !.num_pages = Len(pages)]
    ELSE [r EXCEPT !.method = "Failed"]

\* ListPages that asks a second time when the first call fails
ListPages_Retries ==
    /\ pc = "pages"
    /\ \E response \in {[kind |-> "ok", pages |-> pl] : pl \in PageLists}
                       \cup {[kind |-> "error"]} :
          /\ calls' = Append(calls, [op |-> "pages", id |-> reports[rep_i].id,
                                     response |-> response])
          /\ IF response.kind = "error" /\ ~\E k \in 1..Len(calls) : calls[k].op = "pages"
             THEN pc' = "pages" /\ UNCHANGED result
             ELSE /\ result' = ResultOfPages(
                                  IF script = "sp" THEN result
                                  ELSE [result EXCEPT !.is_directlake = "Yes"],
                                  get_report_pages(response))
                  /\ pc' = IF script = "sp" THEN "cleanup" ELSE "append"
    /\ UNCHANGED <<parser_vars, classifier_vars, script, workspaces, ws_i, all_results, csv,
                   summary, reports, rep_i, results, pbix_content, extracted_visuals, clone_id, analysis,
                   discovered, stdout>>

\* the page-listing fallback; interactive sets is_directlake = "Yes" first
ListPages ==
    /\ pc = "pages"
    /\ \E response \in {[kind |-> "ok", pages |-> pl] : pl \in PageLists}
                       \cup {[kind |-> "error"]} :
          /\ result' = ResultOfPages(
                          IF script = "sp" THEN result
                          ELSE [result EXCEPT !.is_directlake = "Yes"],
                          get_report_pages(response))
          /\ calls' = Append(calls, [op |-> "pages", id |-> reports[rep_i].id,
                                     response |-> response])
    /\ pc' = IF script = "sp" THEN "cleanup" ELSE "append"
    /\ UNCHANGED <<parser_vars, classifier_vars, script, workspaces, ws_i, all_results, csv, summary,
                   reports, rep_i, results, pbix_content, extracted_visuals, clone_id, analysis,
                   discovered, stdout>>

\* Cleanup that passes report_id to delete_report
Cleanup_DeletesOriginal ==
    /\ pc = "cleanup"
    /\ IF clone_id # NoneId
       THEN \E response \in DeleteResponses :
               /\ stdout' = Append(stdout, "  Cleaning up clone...") \o delete_report(response)
               /\ calls' = Append(calls, [op |-> "delete", id |-> reports[rep_i].id,
                                          response |-> response])
       ELSE UNCHANGED <<calls, stdout>>
    /\ pc' = "append"
    /\ UNCHANGED <<parser_vars, classifier_vars, script, workspaces, ws_i, all_results, csv,
                   summary, report_vars, discovered>>

\* sp: if clone_id: delete_report(access_token, workspace_id, clone_id)
Cleanup ==
    /\ pc = "cleanup"
    /\ IF clone_id # NoneId
       THEN \E response \in DeleteResponses :
               /\ stdout' = Append(stdout, "  Cleaning up clone...") \o delete_report(response)
               /\ calls' = Append(calls, [op |-> "delete", id |-> clone_id,
                                          response |-> response])
       ELSE UNCHANGED <<calls, stdout>>
    /\ pc' = "append"
    /\ UNCHANGED <<parser_vars, classifier_vars, script, workspaces, ws_i, all_results, csv, summary,
                   report_vars, discovered>>

\* results.append(result), the end of one iteration
AppendResult ==
    /\ pc = "append"
    /\ results' = Append(results, result)
    /\ NoAnalysis
    /\ rep_i' = rep_i + 1
    /\ pc' = "rep_loop"
    /\ UNCHANGED <<parser_vars, classifier_vars, main_vars, reports, discovered>>

\* ReturnResults with the CSV file opened in mode 'w' instead of 'a'
ReturnResults_Truncates ==
    /\ pc = "ws_return"
    /\ all_results' = all_results \o results
    /\ csv' = IF script = "interactive" /\ results # <<>>
              THEN [csv EXCEPT !.rows = results] ELSE csv
    /\ ws_i' = ws_i + 1
    /\ pc' = "ws_loop"
    /\ UNCHANGED <<parser_vars, classifier_vars, script, workspaces, summary, report_vars,
                   service_vars>>

\* return results; all_results.extend(results); interactive appends the rows
\* of the workspace to the CSV file
ReturnResults ==
    /\ pc = "ws_return"
    /\ all_results' = all_results \o results
    /\ csv' = IF script = "interactive" /\ results # <<>>
              THEN [csv EXCEPT !.rows = csv.rows \o results] ELSE csv
    /\ ws_i' = ws_i + 1
    /\ pc' = "ws_loop"
    /\ UNCHANGED <<parser_vars, classifier_vars, script, workspaces, summary, report_vars, service_vars>>

\* sp: the CSV file is written once, after the loop
WriteCsv ==
    /\ pc = "write_csv"
    /\ csv' = [exists |-> TRUE, rows |-> <<HeaderRow>> \o all_results]
    /\ pc' = "summary"
    /\ UNCHANGED <<parser_vars, classifier_vars, script, workspaces, ws_i, all_results, summary,
                   report_vars, service_vars>>

Count(rows, Test(_)) == Len(SelectSeq(rows, Test))

\* Summary that counts as exports only the results with method "Direct Export"
Summary_ExportsExact ==
    /\ pc = "summary"
    /\ summary' = [total_reports |-> Len(all_results),
                   reports_with_custom |-> Count(all_results, LAMBDA r : r.custom_visuals > 0),
                   directlake_reports |-> Count(all_results, LAMBDA r : r.is_directlake = "Yes"),
                   successful_exports |-> Count(all_results, LAMBDA r : r.method = "Direct Export")]
    /\ pc' = "done"
    /\ UNCHANGED <<parser_vars, classifier_vars, script, workspaces, ws_i, all_results, csv,
                   report_vars, service_vars>>

\* the SUMMARY block
Summary ==
    /\ pc = "summary"
    /\ summary' = [total_reports |-> Len(all_results),
                   reports_with_custom |-> Count(all_results, LAMBDA r : r.custom_visuals > 0),
                   directlake_reports |-> Count(all_results, LAMBDA r : r.is_directlake = "Yes"),
                   successful_exports |-> Count(all_results, LAMBDA r : Contains(r.method, "Export"))]
    /\ pc' = "done"
    /\ UNCHANGED <<parser_vars, classifier_vars, script, workspaces, ws_i, all_results, csv,
                   report_vars, service_vars>>

Next ==
    \/ Authenticate
    \/ GetWorkspaces
    \/ CreateCsv
    \/ NextWorkspace
    \/ NextReport
    \/ DirectExport
    \/ CloneReport
    \/ CloneExport
    \/ SavePbix
    \/ ExtractVisuals
    \/ ListPages
    \/ Cleanup
    \/ AppendResult
    \/ ReturnResults
    \/ WriteCsv
    \/ Summary

Spec == Init /\ [][Next]_vars

(***************************************************************************)
(* Properties of one report's analysis (Spec)                              *)
(***************************************************************************)
\* the analysis of the current report is over: its body has run to the
\* final results.append, or an exception has left it
AnalysisOver == pc = "append" \/ analysis = "raised"

\* the calls of the current report's analysis to one endpoint
CallsTo(op) == SelectSeq(calls, LAMBDA c : c.op = op)

\* the Clone call of the current analysis created a clone on the service
CloneCreated ==
    \E k \in 1..Len(calls) :
        calls[k].op = "clone" /\ calls[k].response \in {"created", "created_no_id"}

\* the export of the original / of the clone was attempted and gave no payload
DirectExportFailed ==
    Len(CallsTo("export")) >= 1 /\ CallsTo("export")[1].response.kind # "ok"

CloneExportFailed ==
    Len(CallsTo("export")) = 2 /\ CallsTo("export")[2].response.kind # "ok"

CloneExportSucceeded ==
    Len(CallsTo("export")) = 2 /\ CallsTo("export")[2].response.kind = "ok"

\* the direct export failed with the export-disabled/DirectLake marker
DirectExportRestricted ==
    /\ DirectExportFailed
    /\ CallsTo("export")[1].response.kind = "error"
    /\ CallsTo("export")[1].response.code = RestrictedCode

\* C1: in the service principal scan, when the analysis of a report is over
\* and its Clone call created a clone, delete_report has been called on that
\* clone exactly once
C1_CloneDeletedOnce ==
    (script = "sp" /\ AnalysisOver /\ CloneCreated)
    => Len(SelectSeq(calls, LAMBDA c : c.op = "delete"
                                       /\ c.id = CloneIdOf(reports[rep_i].id))) = 1

\* C2: a direct export refused with the restriction marker followed by a
\* successful clone export that yields at least one visual gives a result
\* with method "Direct Export" and DirectLake "Yes"
C2_RestrictedCloneResult ==
    (pc = "append" /\ DirectExportRestricted /\ CloneExportSucceeded
        /\ extract_visuals_from_pbix(script, pbix_content) # <<>>)
    => (result.method = "Direct Export" /\ result.is_directlake = "Yes")

\* C3: the result of an analysis has DirectLake "Yes" only when the direct
\* export failed with the restriction marker
C3_YesOnlyOnMarker ==
    (pc = "append" /\ result.is_directlake = "Yes") => DirectExportRestricted

\* the page list the pages endpoint returned to the current analysis
ReturnedPages == CallsTo("pages")[1].response.pages

BothExportsFailed == DirectExportFailed /\ CloneExportFailed

PagesReturned == Len(CallsTo("pages")) = 1 /\ CallsTo("pages")[1].response.kind = "ok"

\* C4 as claimed: when both exports fail the result is "Page Listing Only"
\* with no visuals and as many pages as the page endpoint returned, for
\* every page list, the empty one included
C4_PageListingAlways ==
    (pc = "append" /\ BothExportsFailed /\ PagesReturned)
    => /\ result.method = "Page Listing Only"
       /\ result.total_visuals = 0
       /\ result.custom_visuals = 0
       /\ result.num_pages = Len(ReturnedPages)

\* C4 amended: when both exports fail, a non-empty page list gives "Page
\* Listing Only" with num_pages the length of the list, an empty list or a
\* failed page call gives "Failed" with num_pages 0; no visuals either way
C4_PageListingOrFailed ==
    (pc = "append" /\ BothExportsFailed)
    => /\ result.total_visuals = 0
       /\ result.custom_visuals = 0
       /\ IF PagesReturned /\ ReturnedPages # <<>>
          THEN result.method = "Page Listing Only" /\ result.num_pages = Len(ReturnedPages)
          ELSE result.method = "Failed" /\ result.num_pages = 0

C4_Witness ==
    /\ pc = "append" /\ BothExportsFailed /\ PagesReturned
    /\ Len(ReturnedPages) = MaxPages
    /\ result.method = "Page Listing Only"

\* the rows of the output file below the header
DataRows == SubSeq(csv.rows, 2, Len(csv.rows))

\* C5: when a run has gone through all workspaces and printed its summary,
\* the output holds exactly one row for every report the report listings
\* returned, in listing order
C5_RowPerDiscoveredReport ==
    (pc = "done" /\ summary # None)
    => /\ csv.exists
       /\ Len(DataRows) = Len(discovered)
       /\ \A k \in 1..Len(discovered) : DataRows[k].report_id = discovered[k].id

\* every ScanResult the run has produced so far
ProducedResults ==
    {results[k] : k \in 1..Len(results)} \cup {all_results[k] : k \in 1..Len(all_results)}
    \cup (IF pc = "append" THEN {result} ELSE {})

\* C6: every produced ScanResult has custom_visuals <= total_visuals, and
\* total_visuals = 0 when its method is "Page Listing Only" or "Failed"
C6_ResultInvariant ==
    \A r \in ProducedResults :
        /\ r.custom_visuals <= r.total_visuals
        /\ r.method \in {"Page Listing Only", "Failed"} => r.total_visuals = 0

C6_Witness ==
    /\ \E r \in ProducedResults : r.method = "Direct Export" /\ r.custom_visuals = 1
                                  /\ r.total_visuals = 3
    /\ \E r \in ProducedResults : r.method = "Page Listing Only"
    /\ \E r \in ProducedResults : r.method = "Failed"

(***************************************************************************)
(* Properties of the parser (ParserSpec)                                   *)
(***************************************************************************)
ParserReturned == parser_pc = "returned"

\* the Layout entries of a zip archive, in archive order
LayoutEntries(blob) == SelectSeq(blob.namelist, LAMBDA e : IsLayoutEntry(e.file_name))

\* data is the utf-16-le / the utf-8 encoding of a JSON document
IsUtf16Doc(data) == decode_utf16le(data).ok /\ json_loads(decode_utf16le(data).text).ok
IsUtf8Doc(data) == decode_utf8(data).ok /\ json_loads(decode_utf8(data).text).ok

\* the document that data encodes
DocOf(data) ==
    IF IsUtf16Doc(data) THEN json_loads(decode_utf16le(data).text).value
    ELSE json_loads(decode_utf8(data).text).value

\* a config string holds a nested document: JSON text of an object
ValidConfig(container) ==
    LET config == json_loads(CodePoints(Item(container, "config").v))
    IN config.ok /\ config.value.json = "object"

\* a Layout document has the manifest shape: an object whose sections, if
\* any, are objects holding lists of container objects
IsManifest(d) == d.json = "object"

RECURSIVE Flatten(_, _)
\* the concatenation of a sequence of sequences, from the i-th one on
Flatten(seqs, i) == IF i > Len(seqs) THEN <<>> ELSE seqs[i] \o Flatten(seqs, i + 1)

\* the visual containers of a section that carry a config, in section order
ConfiguredContainers(section) ==
    IF HasKey(section, "visualContainers")
    THEN SelectSeq(Item(section, "visualContainers").items, LAMBDA c : HasKey(c, "config"))
    ELSE <<>>

SectionsOf(d) == IF HasKey(d, "sections") THEN Item(d, "sections").items ELSE <<>>

\* a manifest is well-formed when every config it carries is a nested document
WellFormed(d) ==
    /\ IsManifest(d)
    /\ \A k \in 1..Len(SectionsOf(d)) :
          \A m \in 1..Len(ConfiguredContainers(SectionsOf(d)[k])) :
              ValidConfig(ConfiguredContainers(SectionsOf(d)[k])[m])

\* the record of one container with a valid config on the page of its section
RecordOf(scr, section, container) ==
    LET config == json_loads(CodePoints(Item(container, "config").v)).value
        type == Get(Get(config, "singleVisual", JObj(<<>>)), "visualType", JStr("Unknown")).v
    IN [name |-> Get(config, "name", JStr("Unnamed")).v,
        type |-> type,
        is_custom |-> is_custom_visual(scr, type),
        page |-> Get(section, "displayName", JStr("Unnamed Section")).v]

\* one record per container with a valid config: sections in document
\* order, containers in section order
RecordsOfDoc(scr, d) ==
    Flatten([k \in 1..Len(SectionsOf(d)) |->
               LET valid == SelectSeq(ConfiguredContainers(SectionsOf(d)[k]), ValidConfig)
               IN [m \in 1..Len(valid) |-> RecordOf(scr, SectionsOf(d)[k], valid[m])]], 1)

\* the records of all Layout entries, entries in archive order
RecordsOfArchive(scr, blob) ==
    Flatten([k \in 1..Len(LayoutEntries(blob)) |->
               RecordsOfDoc(scr, DocOf(LayoutEntries(blob)[k].data))], 1)

\* every Layout entry of the archive satisfies Test
AllLayoutEntries(blob, Test(_)) ==
    /\ blob.kind = "zip"
    /\ \A k \in 1..Len(LayoutEntries(blob)) : Test(LayoutEntries(blob)[k].data)

\* C7: for a blob that cannot be opened as a container the parser returns
\* an outcome other than the empty list it returns for an archive without
\* visuals
C7_MalformedContainerExplicit ==
    (ParserReturned /\ parser_blob.kind = "notzip") => parser_visuals # <<>>

\* the same archive with every utf-8 Layout payload re-encoded as utf-16-le
Utf16Twin(blob) ==
    Zip([k \in 1..Len(blob.namelist) |->
           IF IsLayoutEntry(blob.namelist[k].file_name)
           THEN Entry(blob.namelist[k].file_name,
                      encode_utf16le(decode_utf8(blob.namelist[k].data).text))
           ELSE blob.namelist[k]])

\* C8: an archive whose Layout entries hold well-formed documents encoded as
\* utf-8 parses to the same records as the archive holding the same
\* documents encoded as utf-16-le, whatever the byte length of the payloads
C8_EncodingParity ==
    (ParserReturned
        /\ AllLayoutEntries(parser_blob, LAMBDA data : IsUtf8Doc(data) /\ WellFormed(DocOf(data))))
    => parser_visuals = extract_visuals_from_pbix(parser_script, Utf16Twin(parser_blob))

\* C9: for an archive whose Layout entries hold well-formed documents the
\* parser returns one record per container carrying a config, with the
\* container's name and type, its section's displayName and the
\* classifier's verdict, in encounter order
C9_OneRecordPerContainer ==
    (ParserReturned
        /\ AllLayoutEntries(parser_blob,
              LAMBDA data : (IsUtf16Doc(data) \/ IsUtf8Doc(data)) /\ WellFormed(DocOf(data))))
    => parser_visuals = RecordsOfArchive(parser_script, parser_blob)

\* C10: for an archive whose Layout entries hold manifests in the native
\* utf-16-le encoding, a container whose config is no nested document is the
\* only thing skipped: the records of all other containers are returned
C10_OnlyBadContainerSkipped ==
    (ParserReturned
        /\ AllLayoutEntries(parser_blob, LAMBDA data : IsUtf16Doc(data) /\ IsManifest(DocOf(data))))
    => parser_visuals = RecordsOfArchive(parser_script, parser_blob)

\* data cannot be turned into a document: it is no JSON text under the
\* utf-16-le decoding nor under the utf-8 decoding
EntryFails(data) == ~IsUtf16Doc(data) /\ ~IsUtf8Doc(data)

\* the Layout entries that hold a document
ParsableEntries(blob) ==
    SelectSeq(LayoutEntries(blob), LAMBDA e : IsUtf16Doc(e.data) \/ IsUtf8Doc(e.data))

\* C11: in an archive whose Layout entries either hold a well-formed
\* document in the native utf-16-le encoding or cannot be turned into a
\* document, the failing entries alone are skipped: the records of every
\* other entry, before or after a failing one, are returned
C11_OnlyFailingEntrySkipped ==
    (ParserReturned
        /\ AllLayoutEntries(parser_blob,
              LAMBDA data : EntryFails(data) \/ (IsUtf16Doc(data) /\ WellFormed(DocOf(data)))))
    => parser_visuals =
          Flatten([k \in 1..Len(ParsableEntries(parser_blob)) |->
                     RecordsOfDoc(parser_script, DocOf(ParsableEntries(parser_blob)[k].data))], 1)

(***************************************************************************)
(* Properties of the classifier (ClassifierSpec)                           *)
(***************************************************************************)
Classified == classifier_pc = "returned"

\* the built-in reference set of a script
builtin_visuals(scr) ==
    IF scr = "sp" THEN builtin_visuals_sp ELSE builtin_visuals_interactive

\* id is a built-in identifier of the script or a case variant of one
MatchesBuiltin(scr, id) == \E b \in builtin_visuals(scr) : Lower(b) = Lower(id)

\* id starts with one of the custom-vendor tokens
HasCustomPrefix(id) == \E prefix \in custom_prefixes : StartsWith(id, prefix)

\* C12: every identifier of the built-in set of the script and every case
\* variant of one is classified builtin, whatever its length
C12_BuiltinAnyCase ==
    (Classified /\ MatchesBuiltin(classifier_script, classified_type)) => ~is_custom

\* C13: an identifier that does not match the built-in set, has no dot and
\* at most 25 characters, and starts with PBI_CV, custom or Custom is
\* classified custom
C13_PrefixIsCustom ==
    (Classified /\ ~MatchesBuiltin(classifier_script, classified_type)
        /\ ~Contains(classified_type, ".") /\ Len(classified_type) <= 25
        /\ HasCustomPrefix(classified_type))
    => is_custom

\* C14: an identifier that does not match the built-in set is classified
\* custom when it contains a dot and when it has more than 25 characters;
\* with exactly 25 characters, no dot and no custom prefix it is builtin
C14_DotOrLengthIsCustom ==
    (Classified /\ ~MatchesBuiltin(classifier_script, classified_type))
    => /\ Contains(classified_type, ".") => is_custom
       /\ Len(classified_type) > 25 => is_custom
       /\ (Len(classified_type) = 25 /\ ~Contains(classified_type, ".")
             /\ ~HasCustomPrefix(classified_type)) => ~is_custom

C14_Witness ==
    /\ Classified /\ ~MatchesBuiltin(classifier_script, classified_type)
    /\ Len(classified_type) = 26 /\ ~Contains(classified_type, ".") /\ ~HasCustomPrefix(classified_type)
    /\ is_custom

\* C15: an identifier that is not in the built-in set, has no dot, at most
\* 25 characters and no custom prefix is classified builtin
C15_DefaultIsBuiltin ==
    (Classified /\ ~MatchesBuiltin(classifier_script, classified_type)
        /\ ~Contains(classified_type, ".") /\ Len(classified_type) <= 25
        /\ ~HasCustomPrefix(classified_type))
    => ~is_custom

C15_Witness ==
    Classified /\ classified_type = "Unknown" /\ classifier_script = "interactive" /\ ~is_custom

(***************************************************************************)
(* Properties of a run (Spec)                                              *)
(***************************************************************************)
\* the content of one single flush of a sequence of results at the end
SingleFlush(recorded) == <<HeaderRow>> \o recorded

\* C16: whenever the output file exists, its rows are the header followed
\* by every result recorded so far, once each and in record order: the
\* content one single flush of these results would give, however the
\* results were split over the per-workspace appends
C16_FlushParity == csv.exists => csv.rows = SingleFlush(all_results)

C16_Witness ==
    /\ script = "interactive" /\ pc = "done"
    /\ Len(all_results) >= 2
    /\ \E j, k \in 1..Len(all_results) : all_results[j].workspace # all_results[k].workspace
    /\ csv.rows = SingleFlush(all_results)

\* the number of recorded results that satisfy Test
NumberOf(Test(_)) == Cardinality({k \in 1..Len(all_results) : Test(all_results[k])})

\* C17: the printed summary gives the number of recorded results, of those
\* with custom_visuals > 0, of those with is_directlake "Yes" and of those
\* whose method is one of the two export methods; no count exceeds the total
C17_SummaryCounts ==
    summary # None
    => /\ summary.total_reports = Len(all_results)
       /\ summary.reports_with_custom = NumberOf(LAMBDA r : r.custom_visuals > 0)
       /\ summary.directlake_reports = NumberOf(LAMBDA r : r.is_directlake = "Yes")
       /\ summary.successful_exports =
             NumberOf(LAMBDA r : r.method \in {"Direct Export", "Direct Export (No Visuals)"})
       /\ summary.reports_with_custom <= summary.total_reports
       /\ summary.directlake_reports <= summary.total_reports
       /\ summary.successful_exports <= summary.total_reports

C17_Witness ==
    /\ summary # None
    /\ \E k \in 1..Len(all_results) : all_results[k].method = "Direct Export (No Visuals)"
    /\ \E k \in 1..Len(all_results) : all_results[k].method \in {"Page Listing Only", "Failed"}
    /\ summary.successful_exports = 1
    /\ summary.total_reports = 2

\* the control locations whose step is one call of a per-workspace or
\* per-report endpoint: report listing, export, clone, page listing, delete
NetworkCallSteps ==
    {"ws_loop", "direct_export", "clone", "clone_export", "pages", "cleanup"}

\* C18: no call of a per-workspace or per-report endpoint, whatever it
\* answers, ends the run
C18_CallFailureNeverAborts ==
    [][(pc \in NetworkCallSteps) => (pc' # "crashed")]_vars

\* the run returned at the test of the access token
AuthenticationFailed == pc = "done" /\ summary = None

\* C19: when the token is not acquired the run ends with no workspace and
\* no report listed, no export, clone or delete call made and no output file
C19_AuthFailureEndsRun ==
    AuthenticationFailed
    => /\ workspaces = <<>>
       /\ discovered = <<>>
       /\ calls = <<>>
       /\ all_results = <<>>
       /\ ~csv.exists

C19_Witness == AuthenticationFailed /\ ~csv.exists /\ script = "interactive"

\* the delete call of the current analysis raised or was refused
DeleteFailed ==
    Len(CallsTo("delete")) = 1 /\ CallsTo("delete")[1].response # "deleted"

\* C20: when the deletion of the clone fails the analysis still reaches the
\* recording of the result, and the cleanup step has printed a line beyond
\* the progress line it prints before every deletion
C20_DeleteFailureSurfaced ==
    (pc = "append" /\ DeleteFailed) => stdout # <<"  Cleaning up clone...">>

(***************************************************************************)
(* Export outcomes, strategy order and cleanup targets                     *)
(***************************************************************************)
\* some export of the current analysis, of the original or of the clone,
\* returned a payload
SomeExportOk ==
    \E k \in 1..Len(calls) : calls[k].op = "export" /\ calls[k].response.kind = "ok"

\* C21: when an export returned a payload and the extraction yields no
\* record, the result handed over has method "Direct Export (No Visuals)",
\* DirectLake "No", zero visuals, zero custom visuals, zero pages, and the
\* page listing was not called
C21_NoVisualsResult ==
    (pc = "append" /\ SomeExportOk
       /\ extracted_visuals = <<>>)
    => /\ result.method = "Direct Export (No Visuals)"
       /\ result.is_directlake = "No"
       /\ result.total_visuals = 0
       /\ result.custom_visuals = 0
       /\ result.num_pages = 0
       /\ CallsTo("pages") = <<>>

C21_Witness ==
    /\ pc = "append" /\ CloneExportSucceeded
    /\ extracted_visuals = <<>>
    /\ result.method = "Direct Export (No Visuals)"

\* C22: every result handed to the aggregator has DirectLake "Yes" or "No":
\* "No" exactly when some export of its analysis returned a payload, "Yes"
\* exactly when none did
C22_DirectLakeYesOrNo ==
    /\ \A r \in ProducedResults : r.is_directlake \in {"Yes", "No"}
    /\ pc = "append" => /\ (result.is_directlake = "No" <=> SomeExportOk)
                        /\ (result.is_directlake = "Yes" <=> ~SomeExportOk)

C22_Witness ==
    /\ pc = "append" /\ script = "sp" /\ CloneExportSucceeded
    /\ result.is_directlake = "No" /\ result.method = "Direct Export"

\* C23: at every point of a run the output file holds the rows of all the
\* workspaces completed so far
C23_RowsOfCompletedWorkspaces ==
    all_results # <<>> => (csv.exists /\ DataRows = all_results)

\* the terminal methods of an analysis
Methods == {"Direct Export", "Direct Export (No Visuals)", "Page Listing Only", "Failed"}

\* C24: in the service principal scan a clone is requested only after the
\* direct export returned no payload, the clone is exported only after the
\* clone call gave a clone id, the pages are listed only when no export
\* returned a payload, and the result carries one of the four methods
C24_StrategyOrder ==
    script = "sp" =>
      /\ \A k \in 1..Len(calls) :
           /\ calls[k].op = "clone"
              => /\ k = 2
                 /\ calls[1].op = "export" /\ calls[1].id = calls[k].id
                 /\ calls[1].response.kind # "ok"
           /\ (calls[k].op = "export" /\ k > 1)
              => /\ k = 3
                 /\ calls[2].op = "clone" /\ calls[2].response = "created"
                 /\ calls[k].id = CloneIdOf(calls[2].id)
           /\ calls[k].op = "pages"
              => \A j \in 1..(k - 1) :
                    calls[j].op = "export" => calls[j].response.kind # "ok"
      /\ calls # <<>> => calls[1].op = "export"
      /\ pc = "append" => result.method \in Methods

C24_Witness ==
    /\ pc = "append" /\ script = "sp" /\ Len(calls) = 5
    /\ result.method = "Page Listing Only"

\* C25: within the analysis of one report the export is called at most once
\* on the original and at most once on the clone, and clone, page listing
\* and delete are called at most once each
C25_NoRetry ==
    /\ Len(SelectSeq(calls, LAMBDA c : c.op = "export" /\ c.id = clone_id)) <= 1
    /\ Len(SelectSeq(calls, LAMBDA c : c.op = "export" /\ c.id # clone_id)) <= 1
    /\ Len(CallsTo("export")) <= (IF script = "sp" THEN 2 ELSE 1)
    /\ Len(CallsTo("clone")) <= 1
    /\ Len(CallsTo("pages")) <= 1
    /\ Len(CallsTo("delete")) <= 1

C25_Witness ==
    /\ pc = "append" /\ Len(calls) = 5
    /\ result.method = "Failed"

\* the other script
OtherScript(scr) == IF scr = "sp" THEN "interactive" ELSE "sp"

\* C26: the classifiers of the two scripts return the same verdict for
\* every identifier
C26_ClassifiersAgree ==
    Classified => is_custom = is_custom_visual(OtherScript(classifier_script), classified_type)

\* the ids of the reports the listings returned
DiscoveredIds == {discovered[k].id : k \in 1..Len(discovered)}

\* C27: delete is only called with the id the clone call of the current
\* analysis returned: a clone id was obtained, and the id is not the id of
\* a listed report
C27_DeleteOnlyOwnClone ==
    \A k \in 1..Len(calls) :
        calls[k].op = "delete"
        => /\ clone_id # NoneId
           /\ calls[k].id = clone_id
           /\ calls[k].id \notin DiscoveredIds
           /\ \E j \in 1..(k - 1) :
                 /\ calls[j].op = "clone" /\ calls[j].response = "created"
                 /\ calls[j].id = reports[rep_i].id
                 /\ calls[k].id = CloneIdOf(calls[j].id)

C27_Witness ==
    /\ pc = "append" /\ Len(CallsTo("delete")) = 1
    /\ CallsTo("delete")[1].id = CloneIdOf(reports[rep_i].id)

\* the records whose page display name no earlier record carries
FirstOfPage(visuals) ==
    {k \in 1..Len(visuals) : \A j \in 1..(k - 1) : visuals[j].page # visuals[k].page}

\* C28: a "Direct Export" result counts as pages the distinct page display
\* names among the extracted records, hence at least one and at most as many
\* as there are records
C28_PagesAreDistinctNames ==
    (pc = "append" /\ result.method = "Direct Export")
    => /\ result.num_pages
            = Cardinality(FirstOfPage(extracted_visuals))
       /\ 1 <= result.num_pages
       /\ result.num_pages <= result.total_visuals

C28_Witness ==
    /\ pc = "append" /\ result.method = "Direct Export"
    /\ pbix_content = PbixOf(SharedPageDoc)
    /\ result.num_pages = 2 /\ result.total_visuals = 3

\* the listed reports named like a temporary clone
TempReports ==
    {discovered[k] : k \in {j \in 1..Len(discovered) :
        \/ Contains(discovered[j].name, "temp_analysis_")
        \/ Contains(discovered[j].name, "temp_clone_for_analysis")}}

\* C29: in the service principal scan a listed report named like a temporary
\* clone is never exported, cloned or deleted and gets no result row
C29_TempReportsSkipped ==
    script = "sp" =>
      \A t \in TempReports :
        /\ \A k \in 1..Len(calls) : calls[k].id \notin {t.id, CloneIdOf(t.id)}
        /\ \A r \in ProducedResults : r.report_id # t.id
        /\ \A k \in 1..Len(DataRows) : DataRows[k].report_id # t.id

C29_Witness ==
    /\ script = "sp" /\ pc = "done" /\ TempReports # {}
    /\ Len(DataRows) >= 1

====
